---- MODULE Spec2Model ----
(***************************************************************************)
(* Model of src/util/FfmpegStreamingProcess.ts: the supervisor of one      *)
(* ffmpeg subprocess (class FfmpegStreamingProcess) and its progress       *)
(* parser (parseProgress).                                                 *)
(*                                                                         *)
(* Text is modelled as a sequence of tokens.  A token is one character     *)
(* ("1", ".", "=", "\n", " ", ...) or a word without "=", line ending or   *)
(* white space that stands for its letters ("frame", "continue", ...).     *)
(* A word never parses as a number: its first letter is no digit.          *)
(***************************************************************************)
EXTENDS Integers, Sequences, FiniteSets, TLC

(***************************************************************************)
(* JavaScript values used by parseProgress                                 *)
(***************************************************************************)

\* `undefined`, and a defined string, as Map.get / split[1] yield them.
Undefined == [def |-> FALSE, s |-> <<>>]

Str(s) == [def |-> TRUE, s |-> s]

\* String(v) as parseInt / parseFloat apply it to their argument.
toString(v) == IF v.def THEN v.s ELSE <<"undefined">>

\* A number: NaN, or sign * (int + 0.frac), frac without trailing zeros.
NaN == [nan |-> TRUE, sign |-> 1, int |-> 0, frac |-> <<>>]

Num(sg, i, f) == [nan |-> FALSE, sign |-> sg, int |-> i, frac |-> f]

Digits == {"0", "1", "2", "3", "4", "5", "6", "7", "8", "9"}

DigitVal(c) ==
  CASE c = "0" -> 0 [] c = "1" -> 1 [] c = "2" -> 2 [] c = "3" -> 3
    [] c = "4" -> 4 [] c = "5" -> 5 [] c = "6" -> 6 [] c = "7" -> 7
    [] c = "8" -> 8 [] c = "9" -> 9

\* White space as String.prototype.trim and the number parsers strip it.
WhiteSpace == {" ", "\t", "\r", "\n"}

Drop(s, n) == SubSeq(s, n + 1, Len(s))

RECURSIVE TrimStart(_)
TrimStart(s) ==
  IF s # <<>> /\ Head(s) \in WhiteSpace THEN TrimStart(Tail(s)) ELSE s

RECURSIVE TrimEnd(_)
TrimEnd(s) ==
  IF s # <<>> /\ s[Len(s)] \in WhiteSpace
    THEN TrimEnd(SubSeq(s, 1, Len(s) - 1))
    ELSE s

\* String.prototype.trim
trim(s) == TrimEnd(TrimStart(s))

\* Length of the longest prefix of s made of digits.
RECURSIVE DigitRun(_)
DigitRun(s) ==
  IF s # <<>> /\ Head(s) \in Digits THEN 1 + DigitRun(Tail(s)) ELSE 0

RECURSIVE DigitsValue(_, _)
DigitsValue(s, acc) ==
  IF s = <<>> THEN acc ELSE DigitsValue(Tail(s), 10 * acc + DigitVal(Head(s)))

RECURSIVE StripZeros(_)
StripZeros(s) ==
  IF s # <<>> /\ s[Len(s)] = "0"
    THEN StripZeros(SubSeq(s, 1, Len(s) - 1))
    ELSE s

HasSign(s) == s # <<>> /\ Head(s) \in {"+", "-"}

SignOf(s) == IF s # <<>> /\ Head(s) = "-" THEN -1 ELSE 1

\* parseInt(v), radix 10: leading white space, an optional sign, then the
\* longest run of digits; NaN when that run is empty.
parseInt(v) ==
  LET t == TrimStart(toString(v))
      u == IF HasSign(t) THEN Tail(t) ELSE t
      n == DigitRun(u)
  IN  IF n = 0 THEN NaN
      ELSE Num(SignOf(t), DigitsValue(SubSeq(u, 1, n), 0), <<>>)

\* parseFloat(v): leading white space, an optional sign, then the longest
\* prefix digits [. digits] or . digits; NaN when there is none.  (The
\* token alphabet has no exponent and no "Infinity".)
parseFloat(v) ==
  LET t == TrimStart(toString(v))
      u == IF HasSign(t) THEN Tail(t) ELSE t
      n == DigitRun(u)
      r == Drop(u, n)
      dot == r # <<>> /\ Head(r) = "."
      m == IF dot THEN DigitRun(Tail(r)) ELSE 0
  IN  IF n = 0 /\ m = 0 THEN NaN
      ELSE Num(SignOf(t),
               DigitsValue(SubSeq(u, 1, n), 0),
               StripZeros(SubSeq(r, 2, m + 1)))

\* n > 0 on numbers (false for NaN).
GreaterThanZero(n) ==
  ~n.nan /\ n.sign = 1 /\ (n.int > 0 \/ n.frac # <<>>)

(***************************************************************************)
(* parseProgress (lines 124-154)                                           *)
(***************************************************************************)

\* Index of the first line ending /\r?\n/ in s at or after i, 0 if none.
RECURSIVE FindEol(_, _)
FindEol(s, i) ==
  IF i > Len(s) THEN 0
  ELSE IF s[i] = "\n" THEN i
  ELSE IF s[i] = "\r" /\ i < Len(s) /\ s[i + 1] = "\n" THEN i
  ELSE FindEol(s, i + 1)

EolLen(s, i) == IF s[i] = "\r" THEN 2 ELSE 1

\* input.split(/\r?\n/): the pieces between line endings, empty ones kept.
RECURSIVE SplitLines(_)
SplitLines(s) ==
  LET i == FindEol(s, 1)
  IN  IF i = 0 THEN <<s>>
      ELSE <<SubSeq(s, 1, i - 1)>> \o SplitLines(Drop(s, i + EolLen(s, i) - 1))

RECURSIVE FindEq(_, _)
FindEq(s, i) ==
  IF i > Len(s) THEN 0 ELSE IF s[i] = "=" THEN i ELSE FindEq(s, i + 1)

\* line.split('='): every piece between "=" signs.
RECURSIVE SplitEq(_)
SplitEq(s) ==
  LET i == FindEq(s, 1)
  IN  IF i = 0 THEN <<s>> ELSE <<SubSeq(s, 1, i - 1)>> \o SplitEq(Drop(s, i))

\* line.split('=', 2): the first two pieces of the full split; what
\* follows a second "=" is dropped.
SplitLimit2(line) ==
  LET all == SplitEq(line)
  IN  IF Len(all) > 2 THEN SubSeq(all, 1, 2) ELSE all

\* The Map<string, string> after the forEach of lines 130-133: the pairs
\* (split[0], split[1]) in insertion order, split[1] undefined when the
\* line holds no "=".
ProgressMap(input) ==
  LET lines == SplitLines(input)
  IN  [i \in 1..Len(lines) |->
         LET split == SplitLimit2(lines[i])
         IN  [key |-> split[1],
              val |-> IF Len(split) >= 2 THEN Str(split[2]) ELSE Undefined]]

\* MapGet returning the value set first for key.
MapGetFirst(map, key) ==
  LET hits == {i \in 1..Len(map) : map[i].key = <<key>>}
  IN  IF hits = {} THEN Undefined
      ELSE map[CHOOSE i \in hits : \A j \in hits : i <= j].val

\* Map.get(key): the value set last for key, undefined when never set.
MapGet(map, key) ==
  LET hits == {i \in 1..Len(map) : map[i].key = <<key>>}
  IN  IF hits = {} THEN Undefined
      ELSE map[CHOOSE i \in hits : \A j \in hits : j <= i].val

\* input.indexOf('frame=') === 0
StartsWithFrame(input) ==
  Len(input) >= 2 /\ input[1] = "frame" /\ input[2] = "="

\* "no report": the undefined that parseProgress returns.
NoReport ==
  [ok |-> FALSE, frame |-> NaN, fps |-> NaN, stream_q |-> NaN,
   bitrate |-> NaN, total_size |-> NaN, out_time_us |-> NaN,
   out_time |-> <<>>, dup_frames |-> NaN, drop_frames |-> NaN,
   speed |-> NaN, progress |-> <<>>]

\* The object literal of lines 135-147.  parseInt and parseFloat of an
\* absent key give NaN; only .trim() on undefined throws.
BuildReport(map) ==
  [ok |-> TRUE,
   frame |-> parseInt(MapGet(map, "frame")),
   fps |-> parseFloat(MapGet(map, "fps")),
   stream_q |-> parseFloat(MapGet(map, "stream_0_0_q")),
   bitrate |-> parseFloat(MapGet(map, "bitrate")),
   total_size |-> parseInt(MapGet(map, "total_size")),
   out_time_us |-> parseInt(MapGet(map, "out_time_us")),
   out_time |-> trim(MapGet(map, "out_time").s),
   dup_frames |-> parseInt(MapGet(map, "dup_frames")),
   drop_frames |-> parseInt(MapGet(map, "drop_frames")),
   speed |-> parseFloat(MapGet(map, "speed")),
   progress |-> trim(MapGet(map, "progress").s)]

\* The expressions of the object literal that throw a TypeError.
Throws(map) ==
  ~MapGet(map, "out_time").def \/ ~MapGet(map, "progress").def

parseProgress(input) ==
  IF StartsWithFrame(input)
    THEN LET map == ProgressMap(input)
         IN  IF Throws(map) THEN NoReport ELSE BuildReport(map)
    ELSE NoReport

(***************************************************************************)
(* Bounds and input alphabets                                              *)
(***************************************************************************)

\* How many times the host calls stop(), and how many 'error' events the
\* child process emits, in one behaviour.
MaxStops == 2

MaxErrors == 2

\* `code === null` (termination by signal) is modelled as the code -1.
NullCode == -1

KilledCode == 255

ExitCodes == {NullCode, 0, 1, 2, KilledCode}

\* const startTime = Date.now(), and the values later calls return (ms).
StartTime == 0

Nows == {0, 4999, 5000, 21999, 22000}

\* Lines of ffmpeg's stderr.
StderrLines ==
  { <<"[", "error", "]", " ", "x">>,
    <<"x", " ", "[", "fatal", "]">>,
    <<"[", "panic", "]">>,
    <<"[", "warning", "]", " ", "x">>,
    <<"[", "Error", "]">>,
    <<"error">>,
    <<"[", "error">>,
    <<"[", " ", "error", "]">>,
    <<>> }

(***************************************************************************)
(* Progress blocks written by ffmpeg -progress, and damaged ones           *)
(***************************************************************************)

Keys ==
  <<"frame", "fps", "stream_0_0_q", "bitrate", "total_size", "out_time_us",
    "out_time", "dup_frames", "drop_frames", "speed", "progress">>

\* The values of a well-formed block whose frame count is f.
GoodValues(f) ==
  <<f, <<"2", "5", ".", "0">>, <<"2", "8", ".", "0">>, <<"5", "1", "2", ".", "3">>,
    <<"1", "0", "2", "4", "0">>, <<"4", "0", "0">>, <<"0", "0", ":", "4", "0">>,
    <<"0">>, <<"0">>, <<"1", ".", "0">>, <<"continue">>>>

KeyLine(k, v, eol) == <<k, "=">> \o v \o eol

RECURSIVE Concat(_)
Concat(ss) == IF ss = <<>> THEN <<>> ELSE Head(ss) \o Concat(Tail(ss))

\* The block with values vals, line ending eol, without the keys in skip.
Block(vals, eol, skip) ==
  Concat([i \in 1..Len(Keys) |->
            IF Keys[i] \in skip THEN <<>> ELSE KeyLine(Keys[i], vals[i], eol)])

LF == <<"\n">>

CRLF == <<"\r", "\n">>

FrameValues == {<<"0">>, <<"1", "0">>}

\* Values that are no number, or one only by their prefix.
OddValues ==
  { <<"N", "/", "A">>, <<>>, <<"1", "2", "x">>, <<" ", "7">>, <<"-", "3">>,
    <<".", "5">>, <<"1", "=", "9">> }

WellFormed == {Block(GoodValues(f), eol, {}) : f \in FrameValues, eol \in {LF, CRLF}}

MissingKey == {Block(GoodValues(<<"1", "0">>), LF, {Keys[i]}) : i \in 2..Len(Keys)}

OddValue ==
  {Block([GoodValues(<<"1", "0">>) EXCEPT ![i] = v], LF, {}) :
     i \in 1..Len(Keys), v \in OddValues}

\* A key repeated on a later line, and a line that holds no "=".
Repeated ==
  {Block(GoodValues(<<"0">>), LF, {}) \o KeyLine(Keys[i], <<"7">>, LF) :
     i \in 1..Len(Keys)}

NoEquals ==
  {Block(GoodValues(<<"1", "0">>), LF, {Keys[i]}) \o <<Keys[i]>> \o LF :
     i \in 2..Len(Keys)}

NotFrameFirst ==
  { <<>>,
    LF \o Block(GoodValues(<<"1", "0">>), LF, {}),
    <<" ">> \o Block(GoodValues(<<"1", "0">>), LF, {}),
    Block(GoodValues(<<"1", "0">>), LF, {"frame"}),
    <<"frame">>,
    <<"frame", " ", "=", "1", "0">> \o LF \o Block(GoodValues(<<"1", "0">>), LF, {"frame"}) }

Chunks ==
  WellFormed \cup MissingKey \cup OddValue \cup Repeated \cup NoEquals
    \cup NotFrameFirst

\* The chunks the supervisor is fed in Spec: no report, frame = 0,
\* frame > 0, and frame > 0 in a block with a missing numeric key.
DataChunks ==
  { <<"x">>,
    Block(GoodValues(<<"0">>), LF, {}),
    Block(GoodValues(<<"1", "0">>), LF, {}),
    Block(GoodValues(<<"1", "0">>), LF, {"speed"}),
    Block(GoodValues(<<"1", "0">>), LF, {"progress"}),
    Block(GoodValues(<<"N", "/", "A">>), LF, {}) }

(***************************************************************************)
(* The supervisor: class FfmpegStreamingProcess                            *)
(***************************************************************************)

VARIABLES
  debug,        \* constructor argument debug
  supplied,     \* whether a ready callback was passed to the constructor
  callback,     \* TRUE while the closure variable callback is defined
  started,      \* closure variable started
  killTimeout,  \* this.killTimeout: 0 (undefined) or the index of a timer
  timers,       \* every timer stop() created: "armed", "fired" or "cleared"
  stdin,        \* what was written to this.process.stdin
  killed,       \* this.process.killed
  exited,       \* the 'exit' event was emitted (the process handle is gone)
  errors,       \* number of 'error' events emitted
  cbCalls,      \* invocations of the ready callback, "ok" or "error", in order
  stopStreamCalls,       \* calls of delegate.stopStream
  forceStopStreamCalls,  \* calls of delegate.forceStopStream
  killCalls,    \* calls of this.process.kill('SIGKILL')
  sigkills,     \* SIGKILL signals delivered to the process
  firstFramesLogs,  \* 'Getting the first frames took ...' messages logged
  ev,           \* the event or call handled last, with its inputs
  out,          \* what the last handler did, in order
  data,         \* parseProgress: the input chunk
  report        \* parseProgress: its result for data

supervisorVars ==
  <<debug, supplied, callback, started, killTimeout, timers, stdin, killed,
    exited, errors, cbCalls, stopStreamCalls, forceStopStreamCalls, killCalls,
    sigkills, firstFramesLogs, ev, out>>

vars == <<supervisorVars, data, report>>

Event(op, code, text, time) ==
  [op |-> op, code |-> code, text |-> text, time |-> time]

\* One observable step of a handler.
Eff(op, tag) == [op |-> op, tag |-> tag, flag |-> FALSE]

\* log.debug(message, cameraName, force), log.warn, log.error
Log(level, tag, force) == [op |-> level, tag |-> tag, flag |-> force]

CallbackOk == Eff("callback", "ok")

CallbackError == Eff("callback", "error")

Calls(effs, e) == Cardinality({i \in 1..Len(effs) : effs[i] = e})

Count(effs, op) == Cardinality({i \in 1..Len(effs) : effs[i].op = op})

\* The state the constructor leaves (lines 49-56).
Init ==
  /\ debug \in BOOLEAN
  /\ supplied \in BOOLEAN
  /\ callback = supplied
  /\ started = FALSE
  /\ killTimeout = 0
  /\ timers = <<>>
  /\ stdin = <<>>
  /\ killed = FALSE
  /\ exited = FALSE
  /\ errors = 0
  /\ cbCalls = <<>>
  /\ stopStreamCalls = 0
  /\ forceStopStreamCalls = 0
  /\ killCalls = 0
  /\ sigkills = 0
  /\ firstFramesLogs = 0
  /\ ev = Event("constructor", 0, <<>>, StartTime)
  /\ out = <<Log("log.debug", "Stream command", debug)>>
  /\ data = <<>>
  /\ report = NoReport

IsCallback(e) == e.op = "callback"

\* The handler's effects on the callback and the delegate, counted.
Record(effs) ==
  LET cbs == SelectSeq(effs, IsCallback)
  IN  /\ out' = effs
      /\ cbCalls' = cbCalls \o [i \in 1..Len(cbs) |-> cbs[i].tag]
      /\ stopStreamCalls' = stopStreamCalls + Count(effs, "stopStream")
      /\ forceStopStreamCalls' =
           forceStopStreamCalls + Count(effs, "forceStopStream")
      /\ firstFramesLogs' =
           firstFramesLogs
             + Cardinality({i \in 1..Len(effs) : effs[i].tag = "first frames"})

(***************************************************************************)
(* stdout 'data' (lines 58-74)                                             *)
(***************************************************************************)

FirstFramesDebugBelow == 5

FirstFramesWarnBelow == 22

\* The log of lines 65-71 for runtime = ms / 1000 seconds: `runtime < 5`
\* is compared as ms < 5 * 1000.
FirstFramesLog(ms, dbg) ==
  IF ms < FirstFramesDebugBelow * 1000
    THEN Log("log.debug", "first frames", dbg)
  ELSE IF ms < FirstFramesWarnBelow * 1000
    THEN Log("log.warn", "first frames", FALSE)
  ELSE Log("log.error", "first frames", FALSE)

\* FirstFrames without the `!started` test.
FirstFramesUnguarded(progress, isStarted) ==
  progress.ok /\ GreaterThanZero(progress.frame)

\* FirstFrames without the `progress.frame > 0` test.
FirstFramesAnyReport(progress, isStarted) == progress.ok /\ ~isStarted

\* Whether the handler takes the branch of line 61.
FirstFrames(progress, isStarted) ==
  progress.ok /\ ~isStarted /\ GreaterThanZero(progress.frame)

\* parseProgress(data) for each chunk the supervisor is fed.
Parsed == [chunk \in DataChunks |-> parseProgress(chunk)]

\* Date.now() is read (line 63) only on the branch of line 61.
OnStdoutData ==
  \E chunk \in DataChunks :
    LET first == FirstFrames(Parsed[chunk], started)
    IN  \E now \in (IF first THEN Nows ELSE {StartTime}) :
          /\ ev' = Event("stdout", 0, chunk, now)
          /\ started' = (started \/ first)
          /\ Record(IF first THEN <<FirstFramesLog(now - StartTime, debug)>>
                    ELSE <<>>)
          /\ UNCHANGED <<debug, supplied, callback, killTimeout, timers,
                         stdin, killed, exited, errors, killCalls, sigkills,
                         data, report>>

(***************************************************************************)
(* stderr 'line' (lines 79-89)                                             *)
(***************************************************************************)

SeverityTags == {"panic", "fatal", "error"}

\* line.match(/\[(panic|fatal|error)\]/)
MatchesSeverity(line) ==
  \E i \in 1..Len(line) - 2 :
    line[i] = "[" /\ line[i + 1] \in SeverityTags /\ line[i + 2] = "]"

\* StderrLog with the debug flag tested on the first branch only.
StderrLogDebugOnError(line, dbg) ==
  IF dbg /\ MatchesSeverity(line) THEN <<Log("log.error", "stderr", FALSE)>>
  ELSE <<Log("log.debug", "stderr", TRUE)>>

\* Lines 84-88.
StderrLog(line, dbg) ==
  IF dbg /\ MatchesSeverity(line) THEN <<Log("log.error", "stderr", FALSE)>>
  ELSE IF dbg THEN <<Log("log.debug", "stderr", TRUE)>>
  ELSE <<>>

\* Lines 80-83: the effects, and whether callback stays defined.
StderrReady(cb) == IF cb THEN <<CallbackOk>> ELSE <<>>

StderrCallbackAfter(cb) == FALSE

OnStderrLine ==
  \E line \in StderrLines :
    /\ ev' = Event("stderr", 0, line, 0)
    /\ callback' = StderrCallbackAfter(callback)
    /\ Record(StderrReady(callback) \o StderrLog(line, debug))
    /\ UNCHANGED <<debug, supplied, started, killTimeout, timers, stdin,
                   killed, exited, errors, killCalls, sigkills, data, report>>

(***************************************************************************)
(* process 'error' (lines 90-96)                                           *)
(***************************************************************************)

ErrorEffects(cb) ==
  <<Log("log.error", "creation failed", FALSE)>>
    \o (IF cb THEN <<CallbackError>> ELSE <<>>)
    \o <<Eff("stopStream", "")>>

\* Node emits 'error' when the process cannot be spawned or cannot be
\* killed, and 'exit' may or may not follow it; no 'error' follows 'exit'.
OnProcessError ==
  /\ ~exited
  /\ errors < MaxErrors
  /\ errors' = errors + 1
  /\ ev' = Event("error", 0, <<>>, 0)
  /\ Record(ErrorEffects(callback))
  /\ UNCHANGED <<debug, supplied, callback, started, killTimeout, timers,
                 stdin, killed, exited, killCalls, sigkills, data, report>>

(***************************************************************************)
(* process 'exit' (lines 97-121)                                           *)
(***************************************************************************)

\* ClearKillTimeout without the clearTimeout call.
ClearKillTimeoutMissing(kt, ts) == ts

\* Lines 98-100: clearTimeout(this.killTimeout) cancels that one timer if
\* it has not fired; this.killTimeout itself is left as it is.
ClearKillTimeout(kt, ts) ==
  IF kt # 0 /\ ts[kt] = "armed" THEN [ts EXCEPT ![kt] = "cleared"] ELSE ts

ClearEffects(kt) == IF kt # 0 THEN <<Eff("clearTimeout", "")>> ELSE <<>>

\* ExitClass with code 0 taken as expected whether or not a timer was set.
ExitClassZeroExpected(kt, code, isKilled) ==
  IF code = 0 THEN "Expected"
  ELSE IF code = NullCode \/ code = KilledCode
    THEN (IF isKilled THEN "Forced" ELSE "Unexpected")
  ELSE "Error"

\* ExitClass with this.killTimeout tested in place of this.process.killed.
ExitClassForcedOnStop(kt, code, isKilled) ==
  IF kt # 0 /\ code = 0 THEN "Expected"
  ELSE IF code = NullCode \/ code = KilledCode
    THEN (IF kt # 0 THEN "Forced" ELSE "Unexpected")
  ELSE "Error"

\* The branch taken by lines 104-113.
ExitClass(kt, code, isKilled) ==
  IF kt # 0 /\ code = 0 THEN "Expected"
  ELSE IF code = NullCode \/ code = KilledCode
    THEN (IF isKilled THEN "Forced" ELSE "Unexpected")
  ELSE "Error"

\* ExitReport with the test of line 115 reduced to `if (callback)`.
ExitReportIgnoringStarted(isStarted, cb) ==
  <<Eff("stopStream", "")>>
    \o (IF cb THEN <<CallbackError>> ELSE <<Eff("forceStopStream", "")>>)

\* ExitReport with the test of line 115 reduced to `if (!started)`.
ExitReportIgnoringCallback(isStarted, cb) ==
  <<Eff("stopStream", "")>>
    \o (IF ~isStarted THEN <<CallbackError>>
        ELSE <<Eff("forceStopStream", "")>>)

\* ExitReport with forceStopStream requested before stopStream.
ExitReportForceFirst(isStarted, cb) ==
  IF ~isStarted /\ cb THEN <<Eff("stopStream", ""), CallbackError>>
  ELSE <<Eff("forceStopStream", ""), Eff("stopStream", "")>>

\* Lines 114-119.
ExitReport(isStarted, cb) ==
  <<Eff("stopStream", "")>>
    \o (IF ~isStarted /\ cb THEN <<CallbackError>>
        ELSE <<Eff("forceStopStream", "")>>)

\* ExitEffects with the report of lines 114-119 made on (Unexpected) too.
ExitEffectsReportingUnexpected(class, isStarted, cb, dbg) ==
  CASE class = "Expected" -> <<Log("log.debug", "Expected", dbg)>>
    [] class = "Forced" -> <<Log("log.debug", "Forced", dbg)>>
    [] class = "Unexpected" ->
         <<Log("log.error", "Unexpected", FALSE)>> \o ExitReport(isStarted, cb)
    [] class = "Error" ->
         <<Log("log.error", "Error", FALSE)>> \o ExitReport(isStarted, cb)

ExitEffects(class, isStarted, cb, dbg) ==
  CASE class = "Expected" -> <<Log("log.debug", "Expected", dbg)>>
    [] class = "Forced" -> <<Log("log.debug", "Forced", dbg)>>
    [] class = "Unexpected" -> <<Log("log.error", "Unexpected", FALSE)>>
    [] class = "Error" ->
         <<Log("log.error", "Error", FALSE)>> \o ExitReport(isStarted, cb)

\* The process exits once; the code is null when a signal ended it.
OnProcessExit ==
  \E code \in ExitCodes :
    /\ ~exited
    /\ exited' = TRUE
    /\ ev' = Event("exit", code, <<>>, 0)
    /\ timers' = ClearKillTimeout(killTimeout, timers)
    /\ Record(ClearEffects(killTimeout)
                \o ExitEffects(ExitClass(killTimeout, code, killed),
                               started, callback, debug))
    /\ UNCHANGED <<debug, supplied, callback, started, killTimeout, stdin,
                   killed, errors, killCalls, sigkills, data, report>>

(***************************************************************************)
(* stop() and its timer (lines 160-165)                                    *)
(***************************************************************************)

KillDelayMs == 2000

\* StopEffects with the timer armed before the quit command is written.
StopEffectsTimerFirst == <<Eff("setTimeout", "kill"), Eff("stdin.write", "q")>>

\* Lines 161-162, in order.
StopEffects == <<Eff("stdin.write", "q"), Eff("setTimeout", "kill")>>

Stop ==
  /\ Len(timers) < MaxStops
  /\ ev' = Event("stop", 0, <<>>, KillDelayMs)
  /\ stdin' = Append(stdin, <<"q", "EOL">>)
  /\ timers' = Append(timers, "armed")
  /\ killTimeout' = Len(timers) + 1
  /\ Record(StopEffects)
  /\ UNCHANGED <<debug, supplied, callback, started, killed, exited, errors,
                 killCalls, sigkills, data, report>>

\* Timers of equal delay fire in the order they were armed.
NextTimer(ts) ==
  {i \in 1..Len(ts) : ts[i] = "armed" /\ \A j \in 1..(i - 1) : ts[j] # "armed"}

\* ChildProcess.kill: the signal is sent, and `killed` set, only while the
\* process handle exists, that is until 'exit' has been emitted.
KillDelivered(isExited) == ~isExited

\* Line 163, run when a timer fires.
OnKillTimeout ==
  \E i \in NextTimer(timers) :
    /\ ev' = Event("timeout", 0, <<>>, i)
    /\ timers' = [timers EXCEPT ![i] = "fired"]
    /\ killCalls' = killCalls + 1
    /\ sigkills' = sigkills + (IF KillDelivered(exited) THEN 1 ELSE 0)
    /\ killed' = (killed \/ KillDelivered(exited))
    /\ Record(<<Eff("kill", "SIGKILL")>>)
    /\ UNCHANGED <<debug, supplied, callback, started, killTimeout, stdin,
                   exited, errors, data, report>>

Next ==
  \/ OnStdoutData
  \/ OnStderrLine
  \/ OnProcessError
  \/ OnProcessExit
  \/ Stop
  \/ OnKillTimeout

Spec == Init /\ [][Next]_vars

(***************************************************************************)
(* parseProgress applied to every chunk of Chunks                          *)
(***************************************************************************)

Pending == [NoReport EXCEPT !.progress = <<"pending">>]

ParseInit ==
  /\ Init
  /\ debug = FALSE
  /\ supplied = FALSE

Feed ==
  /\ report # Pending
  /\ data' \in Chunks
  /\ report' = Pending
  /\ UNCHANGED supervisorVars

Parse ==
  /\ report = Pending
  /\ report' = parseProgress(data)
  /\ UNCHANGED <<supervisorVars, data>>

ParseNext == Feed \/ Parse

ParseSpec == ParseInit /\ [][ParseNext]_vars

(***************************************************************************)
(* Properties                                                              *)
(***************************************************************************)

Has(effs, e) == Calls(effs, e) > 0

\* The state right after the 'exit' handler ran; the handler leaves
\* started, callback, killTimeout and killed as it found them.
AfterExit == ev.op = "exit"

\* C1: over any sequence of stderr-line, process-error and process-exit
\* events the ready callback is invoked at most once in total, with or
\* without an error.
C1_ReadyCallbackAtMostOnce == Len(cbCalls) <= 1

NumericFields ==
  {"frame", "fps", "stream_q", "bitrate", "total_size", "out_time_us",
   "dup_frames", "drop_frames", "speed"}

Parsed1 == report # Pending /\ StartsWithFrame(data)

\* C2: parseProgress is all-or-nothing: a chunk beginning with frame= in
\* which a required key has no value, or a numeric field does not parse as
\* a number, gives no report; so every report has a value for all eleven
\* keys and no NaN field.
C2_AllOrNothing ==
  (Parsed1 /\ report.ok) =>
    /\ \A i \in 1..Len(Keys) : MapGet(ProgressMap(data), Keys[i]).def
    /\ \A f \in NumericFields : ~report[f].nan

ErrorExit == AfterExit /\ ev.code \notin {0, KilledCode, NullCode}

\* C3: on an exit whose code is neither 0, 255 nor absent: with started
\* false and the ready callback pending, the callback is invoked with an
\* error and stopStream is called but not forceStopStream; with started
\* true, stopStream and forceStopStream are both called and the callback
\* is not invoked.
C3_ErrorExitReport ==
  ErrorExit =>
    /\ (~started /\ callback) =>
         /\ Calls(out, CallbackError) = 1
         /\ Count(out, "callback") = 1
         /\ Count(out, "stopStream") = 1
         /\ Count(out, "forceStopStream") = 0
    /\ started =>
         /\ Count(out, "stopStream") = 1
         /\ Count(out, "forceStopStream") = 1
         /\ Count(out, "callback") = 0

C3_Witness ==
  /\ ErrorExit
  /\ ev.code = 2
  /\ ~started
  /\ callback
  /\ Has(out, CallbackError)
  /\ stopStreamCalls = 1
  /\ forceStopStreamCalls = 0

ExpectedLog == Log("log.debug", "Expected", debug)

\* C4: when stop() was called and the process exits with code 0 while the
\* forced-kill timer is still armed, the exit handler cancels the timer,
\* logs the exit as (Expected) at debug level and calls neither the
\* delegate nor the callback; the cancelled timer never fires, and no
\* SIGKILL reaches the process once it has exited.
C4_ExpectedExit ==
  [][ /\ ( /\ ~exited
           /\ exited'
           /\ ev'.code = 0
           /\ killTimeout # 0
           /\ timers[killTimeout] = "armed" ) =>
           /\ timers'[killTimeout] = "cleared"
           /\ out' = <<Eff("clearTimeout", ""), ExpectedLog>>
           /\ stopStreamCalls' = stopStreamCalls
           /\ forceStopStreamCalls' = forceStopStreamCalls
           /\ cbCalls' = cbCalls
           /\ sigkills' = sigkills
      /\ \A i \in 1..Len(timers) :
           timers[i] = "cleared" => timers'[i] = "cleared"
      /\ exited => sigkills' = sigkills ]_vars

C4_Witness ==
  /\ AfterExit
  /\ ev.code = 0
  /\ Len(timers) = 1
  /\ timers[1] = "cleared"
  /\ Has(out, ExpectedLog)
  /\ sigkills = 0

\* C5: stop() writes the quit command to stdin before it arms the timer;
\* when stop() was called once and its timer fires before the process has
\* exited, SIGKILL is sent to the process, exactly once.
C5_ForcedKillOnce ==
  [][ /\ ev'.op = "stop" =>
           /\ stdin' = Append(stdin, <<"q", "EOL">>)
           /\ \E i, j \in 1..Len(out') :
                /\ i < j
                /\ out'[i] = Eff("stdin.write", "q")
                /\ out'[j] = Eff("setTimeout", "kill")
      /\ ( /\ Len(timers) = 1
           /\ timers[1] = "armed"
           /\ timers'[1] = "fired"
           /\ ~exited ) =>
           /\ sigkills' = 1
           /\ killCalls' = 1
           /\ out' = <<Eff("kill", "SIGKILL")>>
      /\ Len(timers') = 1 => (sigkills' <= 1 /\ killCalls' <= 1) ]_vars

C5_Witness ==
  /\ ev.op = "timeout"
  /\ ~exited
  /\ timers = <<"fired">>
  /\ stdin = <<(<<"q", "EOL">>)>>
  /\ sigkills = 1

\* The level the claim gives a latency of ms milliseconds.
LatencyLevel(ms) ==
  IF ms < 5 * 1000 THEN "log.debug"
  ELSE IF ms < 22 * 1000 THEN "log.warn"
  ELSE "log.error"

FirstFramesLogsIn(effs) == {i \in 1..Len(effs) : effs[i].tag = "first frames"}

ReportsFrames(chunk) ==
  Parsed[chunk].ok /\ GreaterThanZero(Parsed[chunk].frame)

\* C6: the startup-latency message is logged at most once per supervisor,
\* by the stdout handler only, on the first report with frame > 0, at
\* level debug for t < 5 s, warn for 5 s <= t < 22 s and error for
\* t >= 22 s; a later report logs nothing.
C6_FirstFramesLog ==
  /\ firstFramesLogs = (IF started THEN 1 ELSE 0)
  /\ FirstFramesLogsIn(out) # {} =>
       /\ ev.op = "stdout"
       /\ ReportsFrames(ev.text)
       /\ Len(out) = 1
       /\ out[1].op = LatencyLevel(ev.time - StartTime)
  /\ (ev.op = "stdout" /\ ReportsFrames(ev.text)) => started
  /\ (ev.op = "stdout" /\ ~ReportsFrames(ev.text)) => out = <<>>

C6_Witness ==
  /\ ev.op = "stdout"
  /\ ev.time = 5000
  /\ out = <<Log("log.warn", "first frames", FALSE)>>
  /\ firstFramesLogs = 1

\* The lines of StderrLines that hold [panic], [fatal] or [error].
TaggedLines ==
  { <<"[", "error", "]", " ", "x">>,
    <<"x", " ", "[", "fatal", "]">>,
    <<"[", "panic", "]">> }

\* C7: every stderr line invokes a pending ready callback with no argument
\* and clears it, whatever the debug flag; with debug on the line is logged
\* at error level when it holds [panic], [fatal] or [error] and at debug
\* level otherwise; with debug off it is not logged.
C7_StderrLine ==
  [][ ev'.op = "stderr" =>
        /\ ~callback'
        /\ cbCalls' = cbCalls \o (IF callback THEN <<"ok">> ELSE <<>>)
        /\ out' =
             (IF callback THEN <<CallbackOk>> ELSE <<>>)
               \o (IF ~debug THEN <<>>
                   ELSE IF ev'.text \in TaggedLines
                     THEN <<Log("log.error", "stderr", FALSE)>>
                   ELSE <<Log("log.debug", "stderr", TRUE)>>) ]_vars

C7_Witness ==
  /\ ev.op = "stderr"
  /\ ev.text = <<"[", "error", "]", " ", "x">>
  /\ ~debug
  /\ out = <<CallbackOk>>
  /\ cbCalls = <<"ok">>
  /\ ~callback

CreationFailedLog == Log("log.error", "creation failed", FALSE)

\* C8: the 'error' handler logs an error, invokes a pending ready callback
\* with an error and calls stopStream; and once an 'error' event was
\* handled forceStopStream is never called, not even by the handler of an
\* 'exit' event that follows.
C8_SpawnFailureNeverForceStops ==
  /\ ev.op = "error" =>
       out = <<CreationFailedLog>>
               \o (IF callback THEN <<CallbackError>> ELSE <<>>)
               \o <<Eff("stopStream", "")>>
  /\ errors > 0 => forceStopStreamCalls = 0

ErrorLog == Log("log.error", "Error", FALSE)

UnexpectedLog == Log("log.error", "Unexpected", FALSE)

ForcedLog == Log("log.debug", "Forced", debug)

DelegateCalls(effs) == Count(effs, "stopStream") + Count(effs, "forceStopStream")

\* stop() was called before the event handled last.
StopIssued == Len(timers) > 0

\* C9 as claimed: an exit with code 0 is never classified (Error), calls
\* neither stopStream nor forceStopStream and never invokes the callback
\* with an error, whether or not stop() was called; only a code that is
\* neither 0, 255 nor absent is reported to the delegate.
C9_ExitZeroIsSuccess ==
  AfterExit =>
    /\ ev.code = 0 =>
         /\ ~Has(out, ErrorLog)
         /\ DelegateCalls(out) = 0
         /\ ~Has(out, CallbackError)
    /\ DelegateCalls(out) > 0 => ev.code \notin {0, KilledCode, NullCode}

\* C9 amended: an exit with code 0 after stop() was called is classified
\* (Expected), with no delegate call and no callback; an exit with code 0
\* when stop() was never called is classified (Error) and reported with
\* stopStream like any other code that is neither 255 nor absent; the
\* delegate is called exactly on the exits classified (Error).
C9_ExitZeroAfterStop ==
  AfterExit =>
    /\ (ev.code = 0 /\ StopIssued) =>
         out = <<Eff("clearTimeout", ""), ExpectedLog>>
    /\ (ev.code = 0 /\ ~StopIssued) =>
         /\ out[1] = ErrorLog
         /\ Count(out, "stopStream") = 1
    /\ DelegateCalls(out) > 0 <=>
         /\ ev.code \notin {KilledCode, NullCode}
         /\ ~(ev.code = 0 /\ StopIssued)

C9_Witness ==
  /\ AfterExit
  /\ ev.code = 0
  /\ ~StopIssued
  /\ Has(out, ErrorLog)
  /\ stopStreamCalls = 1

KilledExit == AfterExit /\ ev.code \in {NullCode, KilledCode}

\* C10 as claimed: when stop() was called, an exit with absent code or code
\* 255 is logged at debug level as (Forced) and not as (Unexpected);
\* (Unexpected) is logged only when no stop was issued.
C10_ForcedWheneverStopIssued ==
  KilledExit =>
    /\ StopIssued => (Has(out, ForcedLog) /\ ~Has(out, UnexpectedLog))
    /\ Has(out, UnexpectedLog) => ~StopIssued

\* C10 amended: an exit with absent code or code 255 is logged at debug
\* level as (Forced) exactly when the forced-kill timer had fired and sent
\* SIGKILL to the process before the exit; otherwise, also when stop() was
\* called and its timer had not fired yet, it is logged at error level as
\* (Unexpected).
C10_ForcedIffKillSent ==
  KilledExit =>
    /\ sigkills > 0 => (Has(out, ForcedLog) /\ ~Has(out, UnexpectedLog))
    /\ sigkills = 0 => (Has(out, UnexpectedLog) /\ ~Has(out, ForcedLog))
    /\ DelegateCalls(out) = 0

C10_Witness ==
  /\ KilledExit
  /\ StopIssued
  /\ sigkills = 0
  /\ Has(out, UnexpectedLog)

Armed(ts) == {i \in 1..Len(ts) : ts[i] = "armed"}

\* C11 as claimed: for any number and placement of stop() calls, once the
\* 'exit' event has been handled no forced-kill timer remains armed, and
\* no SIGKILL is sent to the process after the exit event.
C11_NoTimerArmedAfterExit ==
  [][ /\ AfterExit' => Armed(timers') = {}
      /\ exited => sigkills' = sigkills ]_vars

\* C11 amended: the exit handler cancels the timer of the last stop() call
\* if it has not fired, so when stop() was called at most once before the
\* exit no timer remains armed once the exit was handled; timers of earlier
\* stop() calls stay armed.  No SIGKILL reaches the process after the exit
\* event.
C11_LastTimerCancelledByExit ==
  [][ /\ AfterExit' =>
           /\ Armed(timers') \subseteq 1..(Len(timers') - 1)
           /\ Armed(timers') = Armed(timers) \ {Len(timers)}
      /\ exited => sigkills' = sigkills ]_vars

C11_Witness ==
  /\ AfterExit
  /\ timers = <<"armed", "cleared">>

\* The exit handled last was classified (Error).
ReportedExit ==
  /\ AfterExit
  /\ ev.code \notin {KilledCode, NullCode}
  /\ ~(ev.code = 0 /\ StopIssued)

\* C12 as claimed: whenever forceStopStream is called, started is true at
\* the time of the call.
C12_ForceStopOnlyWhenStarted ==
  (AfterExit /\ Count(out, "forceStopStream") > 0) => started

\* C12 amended: forceStopStream is called only by the exit handler, on an
\* exit classified (Error), and exactly when started is true or the ready
\* callback is not pending (never supplied, or consumed by a stderr line).
C12_ForceStopUnlessCallbackPending ==
  /\ Count(out, "forceStopStream") > 0 => AfterExit
  /\ AfterExit =>
       (Count(out, "forceStopStream") = 1
          <=> (ReportedExit /\ (started \/ ~callback)))
  /\ forceStopStreamCalls > 0 => exited

C12_Witness ==
  /\ AfterExit
  /\ ~started
  /\ supplied
  /\ ~callback
  /\ forceStopStreamCalls = 1

\* C13: over any sequence of 'error' and 'exit' events, stopStream is
\* called at most once and forceStopStream at most once per supervisor.
C13_SingleShotNotifications ==
  /\ stopStreamCalls <= 1
  /\ forceStopStreamCalls <= 1

\* What the exit handler logs, apart from what it does to the timer.
ExitLogs == SelectSeq(out, LAMBDA e : e.op \in {"log.debug", "log.warn", "log.error"})

\* C14: when the process exits with absent code or code 255 and the
\* supervisor never killed it, the exit is logged at error level as
\* (Unexpected) and the exit handler calls neither stopStream nor
\* forceStopStream and does not invoke the ready callback.
C14_KilledExternally ==
  (KilledExit /\ killCalls = 0) =>
    /\ ExitLogs = <<UnexpectedLog>>
    /\ DelegateCalls(out) = 0
    /\ Count(out, "callback") = 0
    /\ \A i \in 1..Len(out) : out[i].op \in {"clearTimeout", "log.error"}

C14_Witness ==
  /\ KilledExit
  /\ ~StopIssued
  /\ supplied
  /\ callback
  /\ out = <<UnexpectedLog>>
  /\ cbCalls = <<>>

\* C15: started is false at launch, becomes true only in the stdout
\* handler on a chunk that parses to a report with frame > 0, and is never
\* reset; a chunk that gives no report, or a report whose frame is not
\* above 0, leaves started, the ready callback, the kill timer and the
\* delegate untouched and logs nothing.
C15_StartedOnlyByFrames ==
  /\ ~started
  /\ [][ /\ started => started'
         /\ (~started /\ started') =>
              (ev'.op = "stdout" /\ ReportsFrames(ev'.text))
         /\ (ev'.op = "stdout" /\ ~ReportsFrames(ev'.text)) =>
              /\ out' = <<>>
              /\ UNCHANGED <<started, callback, killTimeout, timers, killed,
                             cbCalls, stopStreamCalls, forceStopStreamCalls,
                             killCalls, sigkills, firstFramesLogs>> ]_vars

C15_Witness ==
  /\ ev.op = "stdout"
  /\ ev.text = Block(GoodValues(<<"0">>), LF, {})
  /\ Parsed[ev.text].ok
  /\ ~started
  /\ supplied
  /\ callback
  /\ StopIssued
  /\ out = <<>>

\* The report field that holds the value of Keys[i].
FieldOf ==
  <<"frame", "fps", "stream_q", "bitrate", "total_size", "out_time_us",
    "out_time", "dup_frames", "drop_frames", "speed", "progress">>

Whole(n) == Num(1, n, <<>>)

\* The values of GoodValues(f), f read as the number frame, field by field.
GoodReport(frame) ==
  [ok |-> TRUE, frame |-> Whole(frame), fps |-> Whole(25),
   stream_q |-> Whole(28), bitrate |-> Num(1, 512, <<"3">>),
   total_size |-> Whole(10240), out_time_us |-> Whole(400),
   out_time |-> <<"0", "0", ":", "4", "0">>, dup_frames |-> Whole(0),
   drop_frames |-> Whole(0), speed |-> Whole(1),
   progress |-> <<"continue">>]

\* The value 7 as the field of Keys[i] holds it.
SevenIn(i) ==
  IF Keys[i] \in {"out_time", "progress"} THEN <<"7">> ELSE Whole(7)

\* C16: for a chunk that begins with frame= and holds all eleven keys with
\* well-formed values, parseProgress returns a report whose every field
\* equals the value of its key (stream_0_0_q as stream_q), whatever the
\* line ending; a key that occurs on several lines takes the value of its
\* last occurrence.
C16_WellFormedBlockParsed ==
  report # Pending =>
    /\ \A eol \in {LF, CRLF} :
         /\ data = Block(GoodValues(<<"0">>), eol, {}) => report = GoodReport(0)
         /\ data = Block(GoodValues(<<"1", "0">>), eol, {}) =>
              report = GoodReport(10)
    /\ \A i \in 1..Len(Keys) :
         data = Block(GoodValues(<<"0">>), LF, {}) \o KeyLine(Keys[i], <<"7">>, LF)
           => report = [GoodReport(0) EXCEPT ![FieldOf[i]] = SevenIn(i)]

C16_Witness ==
  /\ data = Block(GoodValues(<<"0">>), LF, {}) \o KeyLine("fps", <<"7">>, LF)
  /\ report.ok
  /\ report.fps = Whole(7)

\* C17: if a ready callback was supplied, then once the 'exit' event has
\* been handled the callback has been invoked at least once, with or
\* without an error.
C17_ExitAnswersCallback == (supplied /\ exited) => Len(cbCalls) >= 1

\* C18: an exit with code 0 is classified (Expected) if and only if stop()
\* was called before the exit event is handled, whether its timer is still
\* pending or has fired; this.killTimeout is never reset once stop() has
\* set it.
C18_ExpectedIffStopIssued ==
  [][ /\ (AfterExit' /\ ev'.code = 0) =>
           /\ Has(out', ExpectedLog) <=> Len(timers) > 0
           /\ Has(out', ErrorLog) <=> Len(timers) = 0
      /\ killTimeout # 0 => killTimeout' # 0
      /\ killTimeout' # 0 <=> Len(timers') > 0 ]_vars

C18_Witness ==
  /\ AfterExit
  /\ ev.code = 0
  /\ timers = <<"fired">>
  /\ killed
  /\ ExitLogs = <<ExpectedLog>>

\* C19: every forceStopStream call directly follows a stopStream call made
\* by the same exit handler, so forceStopStream is never called without
\* stopStream first; stop(), the kill timer, stdout data and stderr lines
\* never call the delegate.
C19_ForceStopFollowsStop ==
  /\ \A i \in 1..Len(out) :
       out[i].op = "forceStopStream" =>
         /\ AfterExit
         /\ i > 1
         /\ out[i - 1].op = "stopStream"
  /\ DelegateCalls(out) > 0 => ev.op \in {"exit", "error"}
  /\ forceStopStreamCalls <= stopStreamCalls

C19_Witness ==
  /\ AfterExit
  /\ started
  /\ out = <<ErrorLog, Eff("stopStream", ""), Eff("forceStopStream", "")>>
  /\ stopStreamCalls = 1
  /\ forceStopStreamCalls = 1

====
